---- MODULE Spec2Model ----
(***************************************************************************)
(* Model of the agent-orchestration core of the Legal-Document-Analyzer:   *)
(* the LangGraph workflow (src/src/langgraph_workflow.py), the planning    *)
(* module (src/src/planner.py), the domain agents and the LLM helper       *)
(* (src/src/agents), and the parallel runner                               *)
(* (src/src/utils/parallel_executor.py).                                   *)
(*                                                                         *)
(* One behaviour is one call of one public entry point: op names it.       *)
(***************************************************************************)
EXTENDS Integers, Naturals, Sequences, FiniteSets, TLC

VARIABLES
    op,          \* the entry point being exercised ("idle" before the call)
    state,       \* ContractState of the workflow invocation
    node,        \* the graph node the workflow is about to execute
    executed,    \* the nodes executed so far, in order
    llm_log,     \* the backend text_generation calls made so far
    clf_log,     \* the zero-shot classifier calls made so far
    ret,         \* what the entry point gave its caller (return or raise)
    arg,         \* the argument of a direct call of a function
    agent_map,   \* run_agents_in_parallel: the name -> agent mapping
    run_text,    \* run_agents_in_parallel: the text argument
    futures,     \* run_agents_in_parallel: name -> state of its future
    yielded,     \* run_agents_in_parallel: the futures as_completed yielded
    results,     \* run_agents_in_parallel: the results dict
    rpc,         \* run_agents_in_parallel: position of the calling thread
    session,     \* app.py: st.session_state (uploaded, analysis, contract_info)
    uploaded_file, \* app.py: the file the uploader widget holds, if any
    db,          \* app.py: the contracts and analyses tables
    clock,       \* app.py: time.time(), counted in uploads
    save_log,    \* app.py: the save_analysis calls of the last script run
    cache,       \* llm_helper.py: the lru_cache of get_client
    created,     \* llm_helper.py: the InferenceClient objects constructed
    caller       \* llm_helper.py: thread -> its position in get_client

vars == <<op, state, node, executed, llm_log, clf_log, ret, arg,
          agent_map, run_text, futures, yielded, results, rpc,
          session, uploaded_file, db, clock, save_log,
          cache, created, caller>>

wfVars == <<state, node, executed>>
runVars == <<agent_map, run_text, futures, yielded, results, rpc>>
uiVars == <<session, uploaded_file, db, clock, save_log>>
clientVars == <<cache, created, caller>>

(***************************************************************************)
(* Bounds of the model.                                                    *)
(***************************************************************************)
MaxAgents == 2      \* largest agent mapping handed to the runner
MaxTextLen == 1     \* longest contract text, in characters
MaxRuns == 1        \* longest run of one character, in reaches of a window
MaxIssues == 1      \* most issues of one domain handed to postprocess_findings
MaxUploads == 2     \* most uploads of one UI session

\* An optional value (Python's X | None): None, or Some(v).
None == <<>>
Some(v) == <<v>>
Get(o) == o[1]

Range(s) == {s[i] : i \in DOMAIN s}

\* sub in s, for strings.
Contains(s, sub) ==
    \E i \in 1..(Len(s) - Len(sub) + 1) : SubSeq(s, i, i + Len(sub) - 1) = sub

(***************************************************************************)
(* Inputs.                                                                 *)
(***************************************************************************)
TextAlphabet == {"a"}

RECURSIVE StringsUpTo(_)
StringsUpTo(n) ==
    IF n = 0 THEN {""}
    ELSE LET shorter == StringsUpTo(n - 1)
         IN  shorter \cup {s \o c : s \in shorter, c \in TextAlphabet}

Texts == StringsUpTo(MaxTextLen)

\* What the backend's text_generation can do on one call: return a
\* completion, or fail.
Completions == {"ok", " ok\n", ""}
LLMOutcomes == [ok : {TRUE}, text : Completions] \cup {[ok |-> FALSE]}

(***************************************************************************)
(* src/src/agents/llm_helper.py                                            *)
(***************************************************************************)
Whitespace == {" ", "\n", "\t", "\r"}

RECURSIVE LStrip(_)
LStrip(s) ==
    IF Len(s) > 0 /\ SubSeq(s, 1, 1) \in Whitespace
    THEN LStrip(SubSeq(s, 2, Len(s)))
    ELSE s

RECURSIVE RStrip(_)
RStrip(s) ==
    IF Len(s) > 0 /\ SubSeq(s, Len(s), Len(s)) \in Whitespace
    THEN RStrip(SubSeq(s, 1, Len(s) - 1))
    ELSE s

\* str.strip()
Strip(s) == RStrip(LStrip(s))

FALLBACK ==
    "The contract contains multiple risk areas including termination clauses, "
    \o "liability exposure, and compliance ambiguities. "
    \o "It is recommended to review indemnification terms, payment penalties, "
    \o "and data protection obligations before execution."

\* A dict: a function from its keys; d[k] = v as assignment.
EmptyDict == <<>>
Put(d, k, v) == [x \in (DOMAIN d) \cup {k} |-> IF x = k THEN v ELSE d[x]]

\* What a call gives its caller.
Return(v) == [kind |-> "return", value |-> v]
Raise(e) == [kind |-> "raise", value |-> e]
NoRet == [kind |-> "none", value |-> None]

\* ask_llm without its except clause: the backend's failure leaves it.
ask_llm_Propagating(prompt, outcome) ==
    [ret |-> IF outcome.ok THEN Return(Strip(outcome.text))
             ELSE Raise("BackendError"),
     calls |-> <<[prompt |-> prompt, outcome |-> outcome]>>]

\* ask_llm(prompt), given what the backend does with the prompt: the
\* stripped response, or, the call's exception caught, the fallback
\* string.  The result comes with the backend calls made.
ask_llm(prompt, outcome) ==
    [ret |-> IF outcome.ok THEN Return(Strip(outcome.text))
             ELSE Return(FALLBACK),
     calls |-> <<[prompt |-> prompt, outcome |-> outcome]>>]

(***************************************************************************)
(* src/src/agents/*_agent.py                                               *)
(***************************************************************************)
AgentLabel ==
    [legal |-> "Legal", finance |-> "Finance",
     compliance |-> "Compliance", operations |-> "Operations"]

KnownAgents == DOMAIN AgentLabel

PromptHead ==
    [legal |-> "You are a Legal Analysis Agent.",
     finance |-> "You are a Finance Analysis Agent.",
     compliance |-> "You are a Compliance Analysis Agent.",
     operations |-> "You are an Operations Analysis Agent."]

\* The prompt a domain agent builds: its template with the contract text
\* embedded after the CONTRACT: line.
Prompt(agent, text) ==
    "\n" \o PromptHead[agent] \o "\n...\nCONTRACT:\n" \o text \o "\n"

\* <Domain>Agent.analyze(contract_text), given the backend's outcome for
\* its prompt: the AgentResult envelope around ask_llm's output.
analyze(agent, text, outcome) ==
    LET out == ask_llm(Prompt(agent, text), outcome)
    IN  [ret |-> IF out.ret.kind = "raise" THEN out.ret
                 ELSE Return([agent |-> AgentLabel[agent],
                              result |-> [analysis |-> out.ret.value]]),
         calls |-> out.calls]

(***************************************************************************)
(* src/src/planner.py                                                      *)
(***************************************************************************)
LABELS ==
    <<"Service Agreement", "Employment Contract", "NDA",
      "Vendor Agreement", "Partnership Agreement", "SAAS Agreement">>

\* The candidate labels ranked with LABELS[k] first.
Ranked(k) ==
    [i \in 1..Len(LABELS) |-> LABELS[((k + i - 2) % Len(LABELS)) + 1]]

\* Top scores of the zero-shot classifier, in percent.
TopScores == {20, 60, 100}

\* What the zero-shot pipeline can do on one call: return the labels
\* ranked by descending score with the scores, or fail.
ClassifierOutcomes ==
    {[ok |-> TRUE, labels |-> Ranked(k),
      scores |-> [i \in 1..Len(LABELS) |->
                     IF i = 1 THEN s ELSE (100 - s) \div (Len(LABELS) - 1)]] :
        k \in 1..Len(LABELS), s \in TopScores}
    \cup {[ok |-> FALSE, exc |-> "ClassifierError"]}

\* classify_contract with a default substituted for a failed classification.
classify_contract_Default(text, outcome) ==
    [ret |-> IF outcome.ok
             THEN Return([contract_type |-> outcome.labels[1],
                          confidence |-> outcome.scores[1]])
             ELSE Return([contract_type |-> LABELS[1], confidence |-> 0]),
     calls |-> <<[text |-> text, ok |-> outcome.ok, outcome |-> outcome]>>]

\* PlanningModule.classify_contract(text), given what the classifier does
\* with the text: the top label and its score, or the classifier's
\* exception.  The result comes with the classifier calls made.
classify_contract(text, outcome) ==
    [ret |-> IF outcome.ok
             THEN Return([contract_type |-> outcome.labels[1],
                          confidence |-> outcome.scores[1]])
             ELSE Raise(outcome.exc),
     calls |-> <<[text |-> text, ok |-> outcome.ok, outcome |-> outcome]>>]

\* select_agents with a policy that consults the classification.
select_agents_ByType(classification_result) ==
    IF classification_result # None
       /\ Get(classification_result).contract_type = "Service Agreement"
    THEN <<"legal", "compliance", "finance", "operations">>
    ELSE <<"legal", "compliance", "finance">>

\* PlanningModule.select_agents
select_agents(classification_result) ==
    <<"legal", "compliance", "finance">>

UnknownAgentError(agent_name) ==
    [error |-> "Unknown agent '" \o agent_name \o "'"]

\* run_agent that hands an unrecognized name to the legal agent.
run_agent_DefaultLegal(agent_name, text, outcome) ==
    IF agent_name = "finance" THEN analyze("finance", text, outcome)
    ELSE IF agent_name = "operations"
         THEN analyze("operations", text, outcome)
    ELSE IF agent_name = "compliance"
         THEN analyze("compliance", text, outcome)
    ELSE analyze("legal", text, outcome)

\* run_agent without its compliance branch.
run_agent_NoCompliance(agent_name, text, outcome) ==
    IF agent_name = "legal" THEN analyze("legal", text, outcome)
    ELSE IF agent_name = "finance" THEN analyze("finance", text, outcome)
    ELSE IF agent_name = "operations"
         THEN analyze("operations", text, outcome)
    ELSE [ret |-> Return(UnknownAgentError(agent_name)), calls |-> <<>>]

\* PlanningModule.run_agent, given the backend's outcome should a prompt
\* be sent.
run_agent(agent_name, text, outcome) ==
    IF agent_name = "legal" THEN analyze("legal", text, outcome)
    ELSE IF agent_name = "finance" THEN analyze("finance", text, outcome)
    ELSE IF agent_name = "operations"
         THEN analyze("operations", text, outcome)
    ELSE IF agent_name = "compliance"
         THEN analyze("compliance", text, outcome)
    ELSE [ret |-> Return(UnknownAgentError(agent_name)), calls |-> <<>>]

(***************************************************************************)
(* src/src/langgraph_workflow.py                                           *)
(***************************************************************************)
\* ContractState with the tone setting written into the contract text.
ContractState_TonedText(input) ==
    [contract_text |->
        IF "tone" \in DOMAIN input
        THEN input.contract_text \o input.tone
        ELSE input.contract_text,
     classification |-> None,
     selected_agents |-> None,
     agent_outputs |-> None,
     final_report |-> None]

\* ContractState as invoke creates it from its input mapping: the fields
\* the schema declares; contract_text comes from the input, every other
\* key of the input is no field of the state.
ContractState(input) ==
    [contract_text |-> input.contract_text,
     classification |-> None,
     selected_agents |-> None,
     agent_outputs |-> None,
     final_report |-> None]

END == "__end__"

\* build_workflow: the nodes, the entry point and the edges.
NODES == {"classify", "select_agents", "run_agents", "build_report"}

ENTRY_POINT == "classify"

\* The edges with run_agents wired before select_agents.
EDGES_Swapped ==
    [classify |-> "run_agents",
     run_agents |-> "select_agents",
     select_agents |-> "build_report",
     build_report |-> END]

\* The edges without the one from build_report to END.
EDGES_NoEnd ==
    [classify |-> "select_agents",
     select_agents |-> "run_agents",
     run_agents |-> "build_report",
     build_report |-> "build_report_done"]

EDGES ==
    [classify |-> "select_agents",
     select_agents |-> "run_agents",
     run_agents |-> "build_report",
     build_report |-> END]

classify_node(st, outcome) ==
    LET c == classify_contract(st.contract_text, outcome)
    IN  [ret |-> IF c.ret.kind = "raise" THEN c.ret
                 ELSE Return([st EXCEPT
                                !.classification = Some(c.ret.value)]),
         calls |-> c.calls]

select_agents_node(st) ==
    Return([st EXCEPT
              !.selected_agents = Some(select_agents(st.classification))])

\* The loop of run_agents_node from position i on: outs[i] is what the
\* backend does with the i-th agent's prompt.
RECURSIVE RunLoop(_, _, _, _, _, _)
RunLoop(sel, text, outs, i, outputs, calls) ==
    IF i > Len(sel) THEN [ret |-> Return(outputs), calls |-> calls]
    ELSE LET r == run_agent(sel[i], text, outs[i])
         IN  IF r.ret.kind = "raise"
             THEN [ret |-> r.ret, calls |-> calls \o r.calls]
             ELSE RunLoop(sel, text, outs, i + 1,
                          Put(outputs, sel[i], r.ret.value),
                          calls \o r.calls)

\* run_agents_node: the new state and the backend calls made, or the
\* TypeError of iterating over an unset selection.
run_agents_node(st, outs) ==
    IF st.selected_agents = None
    THEN [ret |-> Raise("TypeError"), calls |-> <<>>]
    ELSE LET r == RunLoop(Get(st.selected_agents), st.contract_text, outs,
                          1, EmptyDict, <<>>)
         IN  [ret |-> IF r.ret.kind = "raise" THEN r.ret
                      ELSE Return([st EXCEPT
                                     !.agent_outputs = Some(r.ret.value)]),
              calls |-> r.calls]

\* build_report_node that also drops the intermediate agent outputs.
build_report_node_Dropping(st) ==
    Return([st EXCEPT !.final_report =
              Some([contract_classification |-> st.classification,
                    selected_agents |-> st.selected_agents,
                    analysis |-> st.agent_outputs]),
            !.agent_outputs = None])

build_report_node(st) ==
    Return([st EXCEPT !.final_report =
              Some([contract_classification |-> st.classification,
                    selected_agents |-> st.selected_agents,
                    analysis |-> st.agent_outputs])])

(***************************************************************************)
(* The workflow invocation: compiled_graph.invoke(input).  The graph runs  *)
(* the node `node`, then follows its edge; an exception of a node leaves   *)
(* invoke.                                                                 *)
(***************************************************************************)
\* The settings run_analysis passes along with the contract text; the
\* risk threshold is in hundredths.
UISettings ==
    {[clauses |-> [payment |-> None], tone |-> "Executive Summary",
      focus |-> <<"Legal", "Finance", "Compliance">>, risk_threshold |-> 25],
     [clauses |-> [payment |-> Some("fees")], tone |-> "Risk Assessment",
      focus |-> <<"Legal">>, risk_threshold |-> 70]}

\* The mappings handed to invoke: main.py gives the text alone,
\* run_analysis adds the settings.
InvokeInputs ==
    {[contract_text |-> t] : t \in Texts}
    \cup {[contract_text |-> t, clauses |-> u.clauses, tone |-> u.tone,
           focus |-> u.focus, risk_threshold |-> u.risk_threshold] :
            t \in Texts, u \in UISettings}

Invoke(input) ==
    /\ op = "idle"
    /\ op' = "invoke"
    /\ arg' = input
    /\ state' = ContractState(input)
    /\ node' = ENTRY_POINT
    /\ UNCHANGED <<executed, llm_log, clf_log, ret>>
    /\ UNCHANGED runVars
    /\ UNCHANGED <<uiVars, clientVars>>

Running(n) == op = "invoke" /\ ret.kind = "none" /\ node = n

\* The graph's step once node n gave r (Return(new state) or Raise).
NodeDone(n, r) ==
    /\ executed' = Append(executed, n)
    /\ IF r.kind = "return"
       THEN /\ state' = r.value
            /\ node' = EDGES[n]
            /\ ret' = ret
       ELSE /\ ret' = r
            /\ UNCHANGED <<state, node>>

ClassifyStep ==
    /\ Running("classify")
    /\ \E outcome \in ClassifierOutcomes :
          LET r == classify_node(state, outcome)
          IN  /\ NodeDone("classify", r.ret)
              /\ clf_log' = clf_log \o r.calls
    /\ UNCHANGED <<op, llm_log, arg>>
    /\ UNCHANGED runVars
    /\ UNCHANGED <<uiVars, clientVars>>

SelectAgentsStep ==
    /\ Running("select_agents")
    /\ NodeDone("select_agents", select_agents_node(state))
    /\ UNCHANGED <<op, llm_log, clf_log, arg>>
    /\ UNCHANGED runVars
    /\ UNCHANGED <<uiVars, clientVars>>

RunAgentsStep ==
    /\ Running("run_agents")
    /\ \E outs \in [1..(IF state.selected_agents = None THEN 0
                        ELSE Len(Get(state.selected_agents)))
                    -> LLMOutcomes] :
          LET r == run_agents_node(state, outs)
          IN  /\ NodeDone("run_agents", r.ret)
              /\ llm_log' = llm_log \o r.calls
    /\ UNCHANGED <<op, clf_log, arg>>
    /\ UNCHANGED runVars
    /\ UNCHANGED <<uiVars, clientVars>>

BuildReportStep ==
    /\ Running("build_report")
    /\ NodeDone("build_report", build_report_node(state))
    /\ UNCHANGED <<op, llm_log, clf_log, arg>>
    /\ UNCHANGED runVars
    /\ UNCHANGED <<uiVars, clientVars>>

\* The graph reached END: invoke returns the final state.
InvokeReturn ==
    /\ Running(END)
    /\ ret' = Return(state)
    /\ UNCHANGED <<op, state, node, executed, llm_log, clf_log, arg>>
    /\ UNCHANGED runVars
    /\ UNCHANGED <<uiVars, clientVars>>

(***************************************************************************)
(* Direct calls of PlanningModule.select_agents and run_agent.             *)
(***************************************************************************)
ClassificationInputs ==
    {None} \cup
    {Some([contract_type |-> t, confidence |-> c]) :
        t \in Range(LABELS) \cup {"Lease Agreement"}, c \in {0} \cup TopScores}

UnknownNames == {"unknown", "", "Legal", "legal ", "agent"}
AgentNameInputs == KnownAgents \cup UnknownNames

SelectAgentsCall ==
    /\ op = "idle"
    /\ \E c \in ClassificationInputs :
          /\ arg' = [classification_result |-> c]
          /\ ret' = Return(select_agents(c))
    /\ op' = "select_agents"
    /\ UNCHANGED <<llm_log, clf_log>>
    /\ UNCHANGED wfVars
    /\ UNCHANGED runVars
    /\ UNCHANGED <<uiVars, clientVars>>

RunAgentCall ==
    /\ op = "idle"
    /\ \E name \in AgentNameInputs, text \in Texts, outcome \in LLMOutcomes :
          LET r == run_agent(name, text, outcome)
          IN  /\ arg' = [agent_name |-> name, text |-> text]
              /\ ret' = r.ret
              /\ llm_log' = llm_log \o r.calls
    /\ op' = "run_agent"
    /\ UNCHANGED clf_log
    /\ UNCHANGED wfVars
    /\ UNCHANGED runVars
    /\ UNCHANGED <<uiVars, clientVars>>

(***************************************************************************)
(* Direct calls of ask_llm.                                                *)
(***************************************************************************)
AskPrompts == {Prompt(a, t) : a \in KnownAgents, t \in Texts} \cup {"hi"}

\* What the backend can do with a prompt: as LLMOutcomes, or a completion
\* that repeats the prompt.
AskOutcomes(prompt) ==
    LLMOutcomes
    \cup [ok : {TRUE}, text : {prompt \o " ok", "Sure. " \o prompt \o "ok\n"}]

AskLLMCall ==
    /\ op = "idle"
    /\ \E prompt \in AskPrompts :
          \E outcome \in AskOutcomes(prompt) :
             LET r == ask_llm(prompt, outcome)
             IN  /\ arg' = [prompt |-> prompt]
                 /\ ret' = r.ret
                 /\ llm_log' = llm_log \o r.calls
    /\ op' = "ask_llm"
    /\ UNCHANGED clf_log
    /\ UNCHANGED wfVars
    /\ UNCHANGED runVars
    /\ UNCHANGED <<uiVars, clientVars>>

(***************************************************************************)
(* src/src/utils/parallel_executor.py: run_agents_in_parallel(agent_map,   *)
(* text).  The calling thread submits one task per agent, collects the     *)
(* futures as they complete and leaves the with block, whose exit waits    *)
(* for every task; the tasks run on the pool's threads.                    *)
(***************************************************************************)
\* The agents a mapping can hold: the planner's domain agents, and agents
\* of the caller whose analyze raises.
DomainAgent(a) == [class |-> a, exc |-> None]
FailingAgent(e) == [class |-> "failing", exc |-> Some(e)]

AgentExceptions ==
    {[type |-> "RuntimeError", msg |-> "boom"],
     [type |-> "TimeoutError", msg |-> "request timed out"]}

\* The agents that can stand under name n in a mapping.
AgentsFor(n) ==
    {DomainAgent(n), DomainAgent("operations")}
    \cup {FailingAgent(e) : e \in AgentExceptions}

AgentMaps ==
    UNION {UNION {{[n \in names |-> f[n]] :
                      f \in {g \in [names -> UNION {AgentsFor(n) : n \in names}] :
                                \A n \in names : g[n] \in AgentsFor(n)}}} :
              names \in {ns \in SUBSET KnownAgents : Cardinality(ns) <= MaxAgents}}

\* agent.analyze(text) of any agent of a mapping, given the backend's
\* outcome should it send a prompt.
agent_analyze(agent, text, outcome) ==
    IF agent.class \in KnownAgents
    THEN LET r == analyze(agent.class, text, outcome)
         IN  [ret |-> r.ret, calls |-> r.calls]
    ELSE [ret |-> Raise(Get(agent.exc)), calls |-> <<>>]

PENDING == [st |-> "pending", outcome |-> NoRet]

\* The call: results = {}, the pool with max_workers = len(agent_map)
\* (ThreadPoolExecutor refuses max_workers <= 0 with a ValueError), and
\* one submitted task per entry of the mapping.
RunnerStart(am, text) ==
    /\ agent_map' = am
    /\ run_text' = text
    /\ results' = EmptyDict
    /\ IF Cardinality(DOMAIN am) <= 0
       THEN /\ ret' = Raise([type |-> "ValueError",
                             msg |-> "max_workers must be greater than 0"])
            /\ rpc' = "done"
            /\ futures' = EmptyDict
       ELSE /\ ret' = ret
            /\ rpc' = "as_completed"
            /\ futures' = [n \in DOMAIN am |-> PENDING]
    /\ yielded' = {}

RunParallelCall ==
    /\ op = "idle"
    /\ op' = "run_agents_in_parallel"
    /\ \E am \in AgentMaps, text \in Texts : RunnerStart(am, text)
    /\ UNCHANGED <<llm_log, clf_log, arg>>
    /\ UNCHANGED wfVars
    /\ UNCHANGED <<uiVars, clientVars>>

\* run_agents_in_parallel is running, called directly or by plan_agents.
InRunner == op \in {"run_agents_in_parallel", "plan_agents"}

\* A pool thread takes the task of agent name.
TaskStart(name) ==
    /\ InRunner
    /\ name \in DOMAIN futures
    /\ futures[name].st = "pending"
    /\ futures' = [futures EXCEPT ![name].st = "running"]
    /\ UNCHANGED <<op, llm_log, clf_log, ret, arg>>
    /\ UNCHANGED <<agent_map, run_text, yielded, results, rpc>>
    /\ UNCHANGED wfVars
    /\ UNCHANGED <<uiVars, clientVars>>

\* The task of agent name ends: its future holds analyze's result or
\* exception.
TaskFinish(name) ==
    /\ InRunner
    /\ name \in DOMAIN futures
    /\ futures[name].st = "running"
    /\ \E outcome \in LLMOutcomes :
          LET r == agent_analyze(agent_map[name], run_text, outcome)
          IN  /\ futures' = [futures EXCEPT
                               ![name] = [st |-> "finished", outcome |-> r.ret]]
              /\ llm_log' = llm_log \o r.calls
    /\ UNCHANGED <<op, clf_log, ret, arg>>
    /\ UNCHANGED <<agent_map, run_text, yielded, results, rpc>>
    /\ UNCHANGED wfVars
    /\ UNCHANGED <<uiVars, clientVars>>

\* The loop body storing the result under the label of the envelope
\* instead of the requested name.
collect_ByLabel(res, name, outcome) ==
    IF outcome.kind = "return"
    THEN [results |-> Put(res, outcome.value.agent, outcome.value),
          ret |-> NoRet]
    ELSE [results |-> res, ret |-> outcome]

\* The loop body skipping an agent whose task failed.
collect_SkipFailed(res, name, outcome) ==
    IF outcome.kind = "return"
    THEN [results |-> Put(res, name, outcome.value), ret |-> NoRet]
    ELSE [results |-> res, ret |-> NoRet]

\* The body of the for loop over as_completed for a finished future that
\* was not yielded yet: results[agent_name] = future.result(), which
\* re-raises the task's exception.
collect(res, name, outcome) ==
    IF outcome.kind = "return"
    THEN [results |-> Put(res, name, outcome.value), ret |-> NoRet]
    ELSE [results |-> res, ret |-> outcome]

Collect(name) ==
    /\ InRunner
    /\ rpc = "as_completed"
    /\ name \in DOMAIN futures
    /\ futures[name].st = "finished"
    /\ name \notin yielded
    /\ yielded' = yielded \cup {name}
    /\ LET c == collect(results, name, futures[name].outcome)
       IN  /\ results' = c.results
           /\ IF c.ret.kind = "raise"
              THEN /\ ret' = [kind |-> "unwinding", value |-> c.ret.value]
                   /\ rpc' = "exit_with"
              ELSE /\ ret' = ret
                   /\ rpc' = IF yielded' = DOMAIN futures
                             THEN "exit_with" ELSE "as_completed"
    /\ UNCHANGED <<op, llm_log, clf_log, arg, agent_map, run_text, futures>>
    /\ UNCHANGED wfVars
    /\ UNCHANGED <<uiVars, clientVars>>

\* What leaves the with block once shutdown(wait=True) is over: the
\* exception in flight, or the results.
exit_with(res, inflight) ==
    IF inflight.kind = "unwinding" THEN Raise(inflight.value) ELSE Return(res)

\* shutdown(wait=False): the exit does not wait for the tasks.
shutdown_NoWait(futs) == TRUE

\* shutdown(wait=True) returns when every submitted task has ended.
shutdown_wait(futs) == \A n \in DOMAIN futs : futs[n].st = "finished"

\* The with block's exit.
ExitWith ==
    /\ InRunner
    /\ rpc = "exit_with"
    /\ shutdown_wait(futures)
    /\ ret' = exit_with(results, ret)
    /\ rpc' = "done"
    /\ UNCHANGED <<op, llm_log, clf_log, arg>>
    /\ UNCHANGED <<agent_map, run_text, futures, yielded, results>>
    /\ UNCHANGED wfVars
    /\ UNCHANGED <<uiVars, clientVars>>

(***************************************************************************)
(* src/src/planner.py: PlanningModule.plan_agents(text).  It classifies,   *)
(* selects, runs the selected agents through run_agents_in_parallel and    *)
(* packages the outputs with the agents' roles.                            *)
(***************************************************************************)
AGENT_ROLES ==
    [compliance |->
        [objective |-> "Ensure regulatory and policy compliance",
         focus |-> <<"regulation", "audit", "gdpr", "iso", "policy">>,
         risk_type |-> "Compliance Risk"],
     finance |->
        [objective |-> "Identify financial exposure and obligations",
         focus |-> <<"payment", "pricing", "penalty", "tax", "invoice">>,
         risk_type |-> "Financial Risk"],
     legal |->
        [objective |-> "Assess legal enforceability and liability",
         focus |-> <<"liability", "indemnity", "termination", "jurisdiction">>,
         risk_type |-> "Legal Risk"],
     operations |->
        [objective |-> "Validate operational feasibility and SLAs",
         focus |-> <<"sla", "uptime", "delivery", "support">>,
         risk_type |-> "Operational Risk"]]

\* The agent table with the operations agent under the name legal.
PlanAgentTable_Misrouted ==
    [legal |-> DomainAgent("operations"),
     compliance |-> DomainAgent("compliance"),
     finance |-> DomainAgent("finance")]

\* The agent table without its finance entry.
PlanAgentTable_NoFinance ==
    [legal |-> DomainAgent("legal"),
     compliance |-> DomainAgent("compliance")]

\* The agent_map literal of plan_agents.
PlanAgentTable ==
    [legal |-> DomainAgent("legal"),
     compliance |-> DomainAgent("compliance"),
     finance |-> DomainAgent("finance")]

\* plan_agents up to the call of run_agents_in_parallel, given what the
\* classifier does: the locals and the mapping handed to the runner, or
\* the exception of the classifier or of agent_map[name] (KeyError).
plan_prologue(text, outcome) ==
    LET c == classify_contract(text, outcome)
    IN  IF c.ret.kind = "raise"
        THEN [ret |-> c.ret, calls |-> c.calls]
        ELSE LET selected == select_agents(Some(c.ret.value))
             IN  IF \E i \in DOMAIN selected :
                       selected[i] \notin DOMAIN PlanAgentTable
                 THEN [ret |-> Raise([type |-> "KeyError", msg |-> "name"]),
                       calls |-> c.calls]
                 ELSE [ret |-> Return(
                          [text |-> text,
                           classification |-> c.ret.value,
                           selected |-> selected,
                           agent_map |-> [n \in Range(selected) |->
                                             PlanAgentTable[n]]]),
                       calls |-> c.calls]

\* plan_agents from the runner's return on: the record it returns, or the
\* runner's exception.
plan_epilogue(locals, runner_ret) ==
    IF runner_ret.kind = "raise" THEN runner_ret
    ELSE Return([classification |-> locals.classification,
                 selected_agents |-> locals.selected,
                 agent_roles |-> [agent \in Range(locals.selected) |->
                                    AGENT_ROLES[agent]],
                 agent_outputs |-> runner_ret.value])

PlanAgentsCall ==
    /\ op = "idle"
    /\ op' = "plan_agents"
    /\ \E text \in Texts, outcome \in ClassifierOutcomes :
          LET p == plan_prologue(text, outcome)
          IN  /\ clf_log' = clf_log \o p.calls
              /\ IF p.ret.kind = "raise"
                 THEN /\ ret' = p.ret
                      /\ arg' = [text |-> text]
                      /\ rpc' = "plan_done"
                      /\ UNCHANGED <<agent_map, run_text, futures,
                                     yielded, results>>
                 ELSE /\ arg' = p.ret.value
                      /\ RunnerStart(p.ret.value.agent_map, text)
    /\ UNCHANGED llm_log
    /\ UNCHANGED wfVars
    /\ UNCHANGED <<uiVars, clientVars>>

\* run_agents_in_parallel is over: plan_agents returns or lets the
\* runner's exception through.
PlanReturn ==
    /\ op = "plan_agents"
    /\ rpc = "done"
    /\ ret' = plan_epilogue(arg, ret)
    /\ rpc' = "plan_done"
    /\ UNCHANGED <<op, llm_log, clf_log, arg>>
    /\ UNCHANGED <<agent_map, run_text, futures, yielded, results>>
    /\ UNCHANGED wfVars
    /\ UNCHANGED <<uiVars, clientVars>>

(***************************************************************************)
(* src/src/analyzer/clause_extractor.py: extract_clauses(contract_text).   *)
(* A str is a string; positions are 0-based and slices half-open, as in    *)
(* Python.                                                                 *)
(***************************************************************************)
\* U+0130 (capital I with dot above) and U+0307 (combining dot above),
\* written with ASCII stand-ins: str.lower() turns the first into "i"
\* followed by the second.
CapitalIDot == "#"
CombiningDot == "'"

UPPER == "ABCDEFGHIJKLMNOPQRSTUVWXYZ"
LOWER == "abcdefghijklmnopqrstuvwxyz"
UpperChars == {SubSeq(UPPER, i, i) : i \in 1..Len(UPPER)}

\* str.lower() of one character.
LowerChar(c) ==
    IF c = CapitalIDot THEN "i" \o CombiningDot
    ELSE IF c \in UpperChars
         THEN LET i == CHOOSE j \in 1..Len(UPPER) : SubSeq(UPPER, j, j) = c
              IN  SubSeq(LOWER, i, i)
         ELSE c

\* str.lower(), character by character.
RECURSIVE Lower(_)
Lower(s) ==
    IF Len(s) = 0 THEN ""
    ELSE IF Len(s) = 1 THEN LowerChar(s)
    ELSE LET h == Len(s) \div 2
         IN  Lower(SubSeq(s, 1, h)) \o Lower(SubSeq(s, h + 1, Len(s)))

Max(a, b) == IF a >= b THEN a ELSE b
Min(a, b) == IF a <= b THEN a ELSE b

\* s[a:b] for a, b >= 0.
Slice(s, a, b) ==
    LET lo == Min(a, Len(s))
        hi == Min(b, Len(s))
    IN  IF lo >= hi THEN "" ELSE SubSeq(s, lo + 1, hi)

\* sep.join(seq)
RECURSIVE Join(_, _)
Join(seq, sep) ==
    IF Len(seq) = 0 THEN ""
    ELSE IF Len(seq) = 1 THEN seq[1]
    ELSE seq[1] \o sep \o Join(Tail(seq), sep)

CLAUSE_KEYWORDS ==
    <<[name |-> "payment",
       keywords |-> <<"payment", "fees", "invoice", "pricing", "charges",
                      "compensation", "billing">>],
      [name |-> "termination",
       keywords |-> <<"termination", "terminate", "notice period",
                      "cancellation", "expiry">>],
      [name |-> "confidentiality",
       keywords |-> <<"confidential", "non-disclosure", "nda",
                      "proprietary", "confidentiality">>],
      [name |-> "intellectual_property",
       keywords |-> <<"intellectual property", "ip", "ownership",
                      "copyright", "patent", "trademark">>],
      [name |-> "governing_law",
       keywords |-> <<"governing law", "jurisdiction", "applicable law",
                      "court">>],
      [name |-> "liability",
       keywords |-> <<"liability", "damages", "indemnity",
                      "limitation of liability">>],
      [name |-> "data_protection",
       keywords |-> <<"gdpr", "data protection", "privacy", "personal data",
                      "processing">>]>>

\* The distances of a window's ends from the match.
WindowBefore == 200
WindowAfter == 500

\* The keyword k stands at position i of s.
StartsAt(s, i, k) ==
    i + Len(k) <= Len(s) /\ SubSeq(s, i + 1, i + Len(k)) = k

\* The match of the pattern "|".join(keywords) at position i: the first
\* alternative, in the pattern's order, that stands there.
match_at(keywords, s, i) ==
    LET hits == {j \in DOMAIN keywords : StartsAt(s, i, keywords[j])}
    IN  IF hits = {} THEN None
        ELSE LET j == CHOOSE h \in hits : \A g \in hits : h <= g
             IN  Some([start |-> i, end |-> i + Len(keywords[j])])

\* The matches from position pos on, leftmost first and not overlapping;
\* cands are the positions where an alternative stands.
RECURSIVE matches_from(_, _, _, _)
matches_from(keywords, s, cands, pos) ==
    LET rest == {c \in cands : c >= pos}
    IN  IF rest = {} THEN <<>>
        ELSE LET c == CHOOSE x \in rest : \A y \in rest : x <= y
                 m == Get(match_at(keywords, s, c))
             IN  <<m>> \o matches_from(keywords, s, cands, m.end)

\* re.finditer(pattern, s)
finditer(keywords, s) ==
    LET cands == {i \in 0..(Len(s) - 1) :
                     \E j \in DOMAIN keywords : StartsAt(s, i, keywords[j])}
    IN  matches_from(keywords, s, cands, 0)

\* The window taken for the match m: start, end and the slice.
window(contract_text, m) ==
    Slice(contract_text, Max(m.start - WindowBefore, 0),
          Min(m.end + WindowAfter, Len(contract_text)))

\* extracted_text of one category: the windows of its matches, in order.
extracted_text(contract_text, lower_text, keywords) ==
    LET ms == finditer(keywords, lower_text)
    IN  [i \in DOMAIN ms |-> window(contract_text, ms[i])]

\* The orders in which iterating set(extracted_text) can yield it.
SetOrders(S) ==
    {p \in [1..Cardinality(S) -> S] :
        \A i, j \in DOMAIN p : i # j => p[i] # p[j]}

\* The values clauses[clause_name] can get.
clause_values(extracted) ==
    IF extracted # <<>>
    THEN {Some(Join(p, "\n")) : p \in SetOrders(Range(extracted))}
    ELSE {None}

\* The clauses dicts the loop can build over the first n categories.
RECURSIVE clauses_upto(_, _, _)
clauses_upto(contract_text, lower_text, n) ==
    IF n = 0 THEN {EmptyDict}
    ELSE {Put(d, CLAUSE_KEYWORDS[n].name, v) :
            d \in clauses_upto(contract_text, lower_text, n - 1),
            v \in clause_values(extracted_text(contract_text, lower_text,
                                               CLAUSE_KEYWORDS[n].keywords))}

missing_clauses(clauses) ==
    LET names == [i \in DOMAIN CLAUSE_KEYWORDS |-> CLAUSE_KEYWORDS[i].name]
        absent(n) == clauses[n] = None
    IN  SelectSeq(names, absent)

\* An extractor that searches the text as written.
extract_clauses_NoLower(contract_text) ==
    {[clauses |-> c, missing_clauses |-> missing_clauses(c)] :
        c \in clauses_upto(contract_text, contract_text,
                           Len(CLAUSE_KEYWORDS))}

\* The results extract_clauses can return: one per iteration order of the
\* window sets.
extract_clauses(contract_text) ==
    {[clauses |-> c, missing_clauses |-> missing_clauses(c)] :
        c \in clauses_upto(contract_text, Lower(contract_text),
                           Len(CLAUSE_KEYWORDS))}

\* n copies of the character c.
RECURSIVE Rep(_, _)
Rep(c, n) ==
    IF n = 0 THEN ""
    ELSE LET h == Rep(c, n \div 2)
         IN  IF n % 2 = 0 THEN h \o h ELSE h \o h \o c

\* What contract texts are made of: clauses in mixed case, and runs longer
\* than a window reaches, of blanks, of filler and of U+0130.
Pieces ==
    {"", "Payment due", "TERMINATE", "limitation of liability", "IP", "nda",
     CapitalIDot}
    \cup {Rep(" ", r * WindowBefore + 1) : r \in 1..MaxRuns}
    \cup {Rep(CapitalIDot, r * WindowBefore + 1) : r \in 1..MaxRuns}
    \cup {Rep("x", r * WindowAfter + 1) \o "fees" : r \in 1..MaxRuns}
    \cup {"payment" \o Rep("x", r * WindowAfter + 1) : r \in 1..MaxRuns}

ContractTexts == {p \o q : p, q \in Pieces}

ExtractCall ==
    /\ op = "idle"
    /\ \E text \in ContractTexts : \E r \in extract_clauses(text) :
          /\ op' = "extract_clauses"
          /\ arg' = [contract_text |-> text]
          /\ ret' = Return(r)
    /\ UNCHANGED <<wfVars, runVars, llm_log, clf_log>>
    /\ UNCHANGED <<uiVars, clientVars>>

(***************************************************************************)
(* src/app.py: postprocess_findings(result).                               *)
(***************************************************************************)
HIGH_KEYWORDS == <<"terminate", "penalty", "liability", "breach", "uncapped">>
MEDIUM_KEYWORDS == <<"auto-renew", "increase", "unclear">>

\* any(k in s for k in keywords)
any_in(keywords, s) == \E i \in DOMAIN keywords : Contains(s, keywords[i])

\* A rule that looks for the MEDIUM keywords first.
severity_MediumFirst(issue) ==
    IF any_in(MEDIUM_KEYWORDS, Lower(issue)) THEN "MEDIUM"
    ELSE IF any_in(HIGH_KEYWORDS, Lower(issue)) THEN "HIGH"
    ELSE "LOW"

\* The severity the loop body assigns to an issue.
severity(issue) ==
    IF any_in(HIGH_KEYWORDS, Lower(issue)) THEN "HIGH"
    ELSE IF any_in(MEDIUM_KEYWORDS, Lower(issue)) THEN "MEDIUM"
    ELSE "LOW"

\* round(random.uniform(0.75, 0.92), 2), in hundredths.
ConfidenceLow == 75
ConfidenceHigh == 92
Confidences == ConfidenceLow..ConfidenceHigh

\* result.get("domains", {})
get_domains(result) ==
    IF "domains" \in DOMAIN result THEN result["domains"] ELSE EmptyDict

\* The random draws a call can make: one per issue.
DrawsFor(result) ==
    LET ds == get_domains(result)
    IN  {f \in [DOMAIN ds ->
                  UNION {[1..Len(ds[d]) -> Confidences] : d \in DOMAIN ds}] :
            \A d \in DOMAIN ds : DOMAIN f[d] = 1..Len(ds[d])}

postprocess_findings(result, draws) ==
    LET ds == get_domains(result)
        structured_domains ==
            [domain \in DOMAIN ds |->
                [i \in 1..Len(ds[domain]) |->
                    [issue |-> ds[domain][i],
                     agent |-> domain \o "Agent",
                     severity |-> severity(ds[domain][i]),
                     confidence |-> draws[domain][i]]]]
    IN  Put(result, "domains", structured_domains)

\* The issue texts of the inputs.
IssueTexts ==
    {"Uncapped Liability", "Contract may AUTO-RENEW", "standard 30-day notice",
     "auto-renew with a penalty", "may terminat"}

RECURSIVE IssueLists(_)
IssueLists(n) ==
    IF n = 0 THEN {<<>>}
    ELSE LET shorter == IssueLists(n - 1)
         IN  shorter \cup {Append(l, t) : l \in shorter, t \in IssueTexts}

\* The raw results: without domains, with none, and with one domain.
FindingInputs ==
    {[summary |-> "s"], [summary |-> "s", domains |-> EmptyDict]}
    \cup {[summary |-> "s", domains |-> Put(EmptyDict, d, l)] :
            d \in {"Legal", "Finance"}, l \in IssueLists(MaxIssues)}

PostprocessCall ==
    /\ op = "idle"
    /\ \E result \in FindingInputs : \E draws \in DrawsFor(result) :
          /\ op' = "postprocess_findings"
          /\ arg' = [result |-> result]
          /\ ret' = Return(postprocess_findings(result, draws))
    /\ UNCHANGED <<wfVars, runVars, llm_log, clf_log>>
    /\ UNCHANGED <<uiVars, clientVars>>

(***************************************************************************)
(* src/app.py: the Streamlit script.  One action is one run of the script, *)
(* started by one thing the user does; st.session_state, the file the      *)
(* uploader holds and the database outlive the run.  llm_log, clf_log,     *)
(* save_log, state and ret are those of the last run.                      *)
(***************************************************************************)
\* The node n of the graph applied to st, given what the classifier and the
\* backend do: the node's result and the calls it made.
node_call(n, st, c, outs) ==
    CASE n = "classify" ->
            LET r == classify_node(st, c)
            IN  [ret |-> r.ret, clf |-> r.calls, llm |-> <<>>]
      [] n = "select_agents" ->
            [ret |-> select_agents_node(st), clf |-> <<>>, llm |-> <<>>]
      [] n = "run_agents" ->
            LET r == run_agents_node(st, outs)
            IN  [ret |-> r.ret, clf |-> <<>>, llm |-> r.calls]
      [] n = "build_report" ->
            [ret |-> build_report_node(st), clf |-> <<>>, llm |-> <<>>]

\* The graph run from node n on, along the edges, up to END or a raise.
RECURSIVE run_graph(_, _, _, _)
run_graph(n, st, c, outs) ==
    IF n = END THEN [ret |-> Return(st), clf |-> <<>>, llm |-> <<>>]
    ELSE LET r == node_call(n, st, c, outs)
         IN  IF r.ret.kind = "raise" THEN r
             ELSE LET rest == run_graph(EDGES[n], r.ret.value, c, outs)
                  IN  [ret |-> rest.ret,
                       clf |-> r.clf \o rest.clf,
                       llm |-> r.llm \o rest.llm]

\* graph.invoke(input) as one call.
invoke(input, c, outs) ==
    run_graph(ENTRY_POINT, ContractState(input), c, outs)

\* The PDF files a user can pick, with the text the parser reads from each.
FILES ==
    {[name |-> "a.pdf", text |-> "a"], [name |-> "b.pdf", text |-> ""]}

\* load_contract("temp_contract.pdf") after the file's bytes were written
\* there: the text of the file.
load_contract(file) == file.text

\* The keys of analysis_data that save_analysis reads, in the order of the
\* parameter tuple.
ANALYSIS_KEYS == <<"summary", "confidence", "risk_score", "domains">>

\* save_analysis(conn, contract_id, analysis_data, settings): the insert,
\* or the KeyError of the first key analysis_data lacks.
save_analysis(conn, contract_id, analysis_data, settings) ==
    LET lacking == {i \in DOMAIN ANALYSIS_KEYS :
                       ANALYSIS_KEYS[i] \notin DOMAIN analysis_data}
    IN  IF lacking # {}
        THEN [ret |-> Raise([type |-> "KeyError",
                             msg |-> ANALYSIS_KEYS[CHOOSE i \in lacking :
                                        \A j \in lacking : i <= j]]),
              db |-> conn]
        ELSE [ret |-> Return(None),
              db |-> [conn EXCEPT !.analyses =
                        Append(@, [contract_id |-> contract_id,
                                   tone |-> settings.tone,
                                   domains |-> settings.domains,
                                   risk_threshold |-> settings.risk_threshold,
                                   summary |-> analysis_data["summary"],
                                   confidence |-> analysis_data["confidence"],
                                   risk_score |-> analysis_data["risk_score"],
                                   findings |-> analysis_data["domains"]])]]

\* What run_analysis gives when it stops before save_analysis.
analysis_stopped(r, clf, llm, st, conn) ==
    [ret |-> r, clf |-> clf, llm |-> llm, state |-> st,
     saves |-> <<>>, db |-> conn]

\* run_analysis after graph.invoke(input) gave run: the report is read,
\* saved under the session's contract_id and returned.
analysis_saved(run, uploaded, settings, sess, conn, input) ==
    IF run.ret.kind = "raise"
    THEN analysis_stopped(run.ret, run.clf, run.llm, ContractState(input),
                          conn)
    ELSE IF sess.contract_info = None
    THEN analysis_stopped(
             Raise([type |-> "TypeError", msg |-> "contract_info"]),
             run.clf, run.llm, run.ret.value, conn)
    ELSE LET result == Get(run.ret.value.final_report)
             cid == Get(sess.contract_info).contract_id
             sv == save_analysis(conn, cid, result,
                      [tone |-> settings.tone,
                       domains |-> settings.focus,
                       risk_threshold |-> settings.risk_threshold])
         IN  [ret |-> IF sv.ret.kind = "raise" THEN sv.ret
                      ELSE Return(result),
              clf |-> run.clf, llm |-> run.llm,
              state |-> run.ret.value,
              saves |-> <<[contract_id |-> cid,
                           uploaded_file |-> Get(uploaded)]>>,
              db |-> sv.db]

\* The state run_analysis hands to graph.invoke.
analysis_input(file, settings, clauses) ==
    [contract_text |-> load_contract(file),
     clauses |-> clauses,
     tone |-> settings.tone,
     focus |-> settings.focus,
     risk_threshold |-> settings.risk_threshold]

\* run_analysis(uploaded_file, tone, focus, risk_threshold) with the
\* session sess and the database conn: what it returns or raises, the
\* calls it made, the workflow's state and the database afterwards.
run_analysis(uploaded, settings, sess, conn, clauses, c, outs) ==
    IF uploaded = None
    THEN analysis_stopped(
             Raise([type |-> "AttributeError", msg |-> "getbuffer"]),
             <<>>, <<>>, ContractState([contract_text |-> ""]), conn)
    ELSE analysis_saved(
             invoke(analysis_input(Get(uploaded), settings, clauses), c,
                    outs),
             uploaded, settings, sess, conn,
             analysis_input(Get(uploaded), settings, clauses))

\* generate_contract_id(filename): "CTR-" and a digest of the file name and
\* the time; two uploads have different times, and the digest is taken to
\* tell them apart.
generate_contract_id(filename, now) ==
    [filename |-> filename, timestamp |-> now]

\* save_contract: INSERT OR REPLACE by contract_id.
save_contract(conn, contract_id, filename) ==
    [conn EXCEPT !.contracts =
        {r \in @ : r.contract_id # contract_id}
        \cup {[contract_id |-> contract_id, filename |-> filename,
               status |-> "uploaded"]}]

\* upload_contract(file) at time now.
upload_contract(file, conn, now) ==
    LET contract_id == generate_contract_id(file.name, now)
    IN  [info |-> [contract_id |-> contract_id, filename |-> file.name],
         db |-> save_contract(conn, contract_id, file.name)]

\* What the script keeps between runs.
World == [session |-> session, uploaded_file |-> uploaded_file,
          db |-> db, clock |-> clock]

\* The session as the script's first run and the reset buttons leave it.
ClearedSession == [uploaded |-> FALSE, analysis |-> None, contract_info |-> None]

\* The upload step: if uploaded_file and not st.session_state.uploaded.
upload_step(w) ==
    IF w.uploaded_file # None /\ ~w.session.uploaded
    THEN LET up == upload_contract(Get(w.uploaded_file), w.db, w.clock + 1)
         IN  [w EXCEPT !.db = up.db,
                       !.clock = @ + 1,
                       !.session = [@ EXCEPT !.uploaded = TRUE,
                                             !.contract_info = Some(up.info)]]
    ELSE w

\* The end of a script run that went to w and made the given calls.
ScriptEnds(w, button, r, st, clf, llm, saves) ==
    /\ w.clock <= MaxUploads
    /\ op' = "app"
    /\ arg' = button
    /\ ret' = r
    /\ state' = st
    /\ clf_log' = clf
    /\ llm_log' = llm
    /\ save_log' = saves
    /\ session' = w.session
    /\ uploaded_file' = w.uploaded_file
    /\ db' = w.db
    /\ clock' = w.clock
    /\ UNCHANGED <<node, executed>>
    /\ UNCHANGED <<runVars, clientVars>>

\* A script run in which no analysis was made.
PlainRun(w, button) ==
    ScriptEnds(w, button, Return(None),
               ContractState([contract_text |-> ""]), <<>>, <<>>, <<>>)

InApp == op \in {"idle", "app"}

\* The user puts the file f into the uploader.
SelectFile(f) ==
    /\ InApp
    /\ uploaded_file # Some(f)
    /\ PlainRun(upload_step([World EXCEPT !.uploaded_file = Some(f)]),
                [button |-> "none"])

\* The user takes the file out of the uploader.
RemoveFile ==
    /\ InApp
    /\ uploaded_file # None
    /\ PlainRun(upload_step([World EXCEPT !.uploaded_file = None]),
                [button |-> "none"])

\* Reset Session: the session is cleared and st.rerun() runs the script
\* again.
ClickReset ==
    /\ InApp
    /\ PlainRun(upload_step([World EXCEPT !.session = ClearedSession]),
                [button |-> "reset"])

\* New Analysis, at the end of the script: the upload step has run, the
\* session is cleared, and st.rerun() runs the script again.
ClickNewAnalysis ==
    /\ InApp
    /\ PlainRun(upload_step([upload_step(World) EXCEPT
                               !.session = ClearedSession]),
                [button |-> "new_analysis"])

\* The settings of the sidebar at the click: those of UISettings, and one
\* with no analysis domain chosen.
ClickSettings ==
    {[tone |-> u.tone, focus |-> u.focus,
      risk_threshold |-> u.risk_threshold] : u \in UISettings}
    \cup {[tone |-> "Executive Summary", focus |-> <<>>, risk_threshold |-> 25]}

\* What the classifier and the backend do during an analysis of the
\* session: the classifier answers or fails, and the backend answers or
\* fails, agent by agent.
SessionClassifierOutcomes ==
    {o \in ClassifierOutcomes :
        ~o.ok \/ (o.labels[1] = LABELS[1] /\ o.scores[1] = 60)}

SessionLLMOutcomes == {[ok |-> TRUE, text |-> " ok\n"], [ok |-> FALSE]}

\* Analyze Contract, shown while st.session_state.uploaded: run_analysis,
\* then postprocess_findings and st.rerun(); an exception ends the run.
AnalyzeEnds(w, button, a) ==
    IF a.ret.kind = "raise"
    THEN ScriptEnds([w EXCEPT !.db = a.db], button, a.ret, a.state, a.clf,
                    a.llm, a.saves)
    ELSE \E draws \in DrawsFor(a.ret.value) :
            ScriptEnds(
                upload_step(
                    [w EXCEPT
                       !.db = a.db,
                       !.session.analysis =
                          Some(postprocess_findings(a.ret.value, draws))]),
                button, Return(None), a.state, a.clf, a.llm, a.saves)

AnalyzeRun(w, button, settings) ==
    IF settings.focus = <<>>
    THEN PlainRun(w, button)
    ELSE \E c \in SessionClassifierOutcomes,
            outs \in [1..Len(select_agents(None)) -> SessionLLMOutcomes],
            clauses \in extract_clauses(
                IF w.uploaded_file = None THEN ""
                ELSE load_contract(Get(w.uploaded_file))) :
            AnalyzeEnds(w, button,
                        run_analysis(w.uploaded_file, settings, w.session,
                                     w.db, clauses.clauses, c, outs))

ClickAnalyze ==
    /\ InApp
    /\ session.uploaded
    /\ \E settings \in ClickSettings :
          AnalyzeRun(upload_step(World),
                     [button |-> "analyze", settings |-> settings], settings)

(***************************************************************************)
(* src/src/agents/llm_helper.py: get_client(), wrapped by                   *)
(* functools.lru_cache(maxsize=1).  The wrapper looks the key up, calls    *)
(* the function on a miss without holding a lock across the call, and then *)
(* stores the result unless the key was added meanwhile; either way the    *)
(* caller gets the result of its own call.  The callers are the pool       *)
(* threads of the agent tasks, each inside ask_llm.                        *)
(***************************************************************************)
\* The threads that call get_client: one per fanned-out agent task.
THREADS == Range(select_agents(None))

NotCalling == [pc |-> "idle", client |-> None]

\* The cache lookup of the wrapper: a hit gives the cached instance.
cache_lookup(t) ==
    IF cache # None
    THEN [pc |-> "returned", client |-> cache]
    ELSE [pc |-> "constructing", client |-> None]

\* Thread t calls get_client(): the lookup.
GetClientCall(t) ==
    /\ op \in {"idle", "get_client"}
    /\ op' = "get_client"
    /\ caller[t].pc \in {"idle", "returned"}
    /\ caller' = [caller EXCEPT ![t] = cache_lookup(t)]
    /\ UNCHANGED <<cache, created>>
    /\ UNCHANGED <<state, node, executed, llm_log, clf_log, ret, arg>>
    /\ UNCHANGED <<runVars, uiVars>>

\* After a miss: InferenceClient(model=MODEL_NAME, token=HF_API_TOKEN), a
\* new instance.
Construct(t) ==
    /\ op = "get_client"
    /\ caller[t].pc = "constructing"
    /\ LET client == Cardinality(created) + 1
       IN  /\ created' = created \cup {client}
           /\ caller' = [caller EXCEPT ![t] = [pc |-> "storing",
                                               client |-> Some(client)]]
    /\ UNCHANGED <<op, cache>>
    /\ UNCHANGED <<state, node, executed, llm_log, clf_log, ret, arg>>
    /\ UNCHANGED <<runVars, uiVars>>

\* After the call: the result is stored unless the key is in the cache by
\* now, and returned to the caller.
Store(t) ==
    /\ op = "get_client"
    /\ caller[t].pc = "storing"
    /\ cache' = IF cache = None THEN caller[t].client ELSE cache
    /\ caller' = [caller EXCEPT ![t].pc = "returned"]
    /\ UNCHANGED <<op, created>>
    /\ UNCHANGED <<state, node, executed, llm_log, clf_log, ret, arg>>
    /\ UNCHANGED <<runVars, uiVars>>

(***************************************************************************)
(* The specification.                                                      *)
(***************************************************************************)
Init ==
    /\ op = "idle"
    /\ state = ContractState([contract_text |-> ""])
    /\ node = "not_started"
    /\ executed = <<>>
    /\ llm_log = <<>>
    /\ clf_log = <<>>
    /\ ret = NoRet
    /\ arg = None
    /\ agent_map = EmptyDict
    /\ run_text = ""
    /\ futures = EmptyDict
    /\ yielded = {}
    /\ results = EmptyDict
    /\ rpc = "idle"
    /\ session = ClearedSession
    /\ uploaded_file = None
    /\ db = [contracts |-> {}, analyses |-> <<>>]
    /\ clock = 0
    /\ save_log = <<>>
    /\ cache = None
    /\ created = {}
    /\ caller = [t \in THREADS |-> NotCalling]

Next ==
    \/ \E input \in InvokeInputs : Invoke(input)
    \/ ClassifyStep
    \/ SelectAgentsStep
    \/ RunAgentsStep
    \/ BuildReportStep
    \/ InvokeReturn
    \/ SelectAgentsCall
    \/ RunAgentCall
    \/ AskLLMCall
    \/ RunParallelCall
    \/ \E name \in KnownAgents : TaskStart(name)
    \/ \E name \in KnownAgents : TaskFinish(name)
    \/ \E name \in KnownAgents : Collect(name)
    \/ ExitWith

Spec == Init /\ [][Next]_vars

\* The batch path alone: one call of plan_agents.
PlanNext ==
    \/ PlanAgentsCall
    \/ \E name \in KnownAgents : TaskStart(name)
    \/ \E name \in KnownAgents : TaskFinish(name)
    \/ \E name \in KnownAgents : Collect(name)
    \/ ExitWith
    \/ PlanReturn

PlanSpec == Init /\ [][PlanNext]_vars

\* The two analysis paths: one workflow invocation, or one call of
\* plan_agents.
PathsNext ==
    \/ \E input \in InvokeInputs : Invoke(input)
    \/ ClassifyStep
    \/ SelectAgentsStep
    \/ RunAgentsStep
    \/ BuildReportStep
    \/ InvokeReturn
    \/ PlanAgentsCall
    \/ \E name \in KnownAgents : TaskStart(name)
    \/ \E name \in KnownAgents : TaskFinish(name)
    \/ \E name \in KnownAgents : Collect(name)
    \/ ExitWith
    \/ PlanReturn

PathsSpec == Init /\ [][PathsNext]_vars

\* A UI session: the script runs the user's actions start.
AppNext ==
    \/ \E f \in FILES : SelectFile(f)
    \/ RemoveFile
    \/ ClickReset
    \/ ClickNewAnalysis
    \/ ClickAnalyze

AppSpec == Init /\ [][AppNext]_vars

\* The pool threads at their get_client calls.
ClientNext ==
    \/ \E t \in THREADS : GetClientCall(t)
    \/ \E t \in THREADS : Construct(t)
    \/ \E t \in THREADS : Store(t)

ClientSpec == Init /\ [][ClientNext]_vars

\* The clause extractor alone: one call of extract_clauses.
ExtractSpec == Init /\ [][ExtractCall]_vars

\* The report post-processor alone: one call of postprocess_findings.
PostprocessSpec == Init /\ [][PostprocessCall]_vars

\* The workflow invocation alone, on a thread the scheduler keeps running.
WorkflowNext ==
    \/ \E input \in InvokeInputs : Invoke(input)
    \/ ClassifyStep
    \/ SelectAgentsStep
    \/ RunAgentsStep
    \/ BuildReportStep
    \/ InvokeReturn

WorkflowFairSpec == Init /\ [][WorkflowNext]_vars /\ WF_vars(WorkflowNext)

(***************************************************************************)
(* Properties of the workflow invocation.                                  *)
(***************************************************************************)
PIPELINE == <<"classify", "select_agents", "run_agents", "build_report">>

IsPrefix(s, t) == Len(s) <= Len(t) /\ s = SubSeq(t, 1, Len(s))

Last(s) == s[Len(s)]

Count(s, x) == Cardinality({i \in DOMAIN s : s[i] = x})

\* C1: in every workflow invocation the nodes execute in the order
\* classify, select_agents, run_agents, build_report, each at most once:
\* whenever a node executes, the executed nodes are a prefix of that
\* pipeline, select_agents finds classification set, run_agents finds
\* selected_agents set and build_report finds agent_outputs set.
C1_StrictNodeOrder ==
    [][executed' # executed =>
         /\ IsPrefix(executed', PIPELINE)
         /\ \A n \in NODES : Count(executed', n) <= 1
         /\ Last(executed') = "select_agents" => state.classification # None
         /\ Last(executed') = "run_agents" => state.selected_agents # None
         /\ Last(executed') = "build_report" => state.agent_outputs # None
      ]_vars

\* An invocation in which all four nodes have executed.
C1_Witness ==
    op = "invoke" /\ executed = PIPELINE

Fields == {"classification", "selected_agents", "agent_outputs", "final_report"}

Writer ==
    [classification |-> "classify",
     selected_agents |-> "select_agents",
     agent_outputs |-> "run_agents",
     final_report |-> "build_report"]

\* C2: during an invocation contract_text never changes; a field changes
\* only in the step of its own node, from unset to set, with every other
\* field left as it was; a node that ran without raising has written its
\* field, so a completed invocation has written each field exactly once.
C2_OneFieldPerNode ==
    [][op = "invoke" =>
         /\ state'.contract_text = state.contract_text
         /\ \A f \in Fields :
               state'[f] # state[f] =>
                  /\ executed' = Append(executed, Writer[f])
                  /\ state[f] = None
                  /\ \A g \in Fields \ {f} : state'[g] = state[g]
         /\ (executed' # executed /\ ret'.kind = "none") =>
               /\ state[CHOOSE f \in Fields : Writer[f] = Last(executed')] = None
               /\ state'[CHOOSE f \in Fields : Writer[f] = Last(executed')] # None
         /\ ret'.kind = "return" => \A f \in Fields : state'[f] # None
      ]_vars

\* A completed invocation: every node has written its field.
C2_Witness ==
    /\ op = "invoke"
    /\ ret.kind = "return"
    /\ \A f \in Fields : state[f] # None

ClassifierFailed == \E i \in DOMAIN clf_log : ~clf_log[i].ok

\* C3: if classify_contract fails during the classify node, the invocation
\* fails with the classifier's error: no later node has executed, no
\* classification was substituted, and final_report is never populated.
C3_ClassificationFailureAborts ==
    (op = "invoke" /\ ClassifierFailed) =>
        /\ ret.kind = "raise"
        /\ ret.value = "ClassifierError"
        /\ executed = <<"classify">>
        /\ \A f \in Fields : state[f] = None

\* An invocation whose classifier call failed.
C3_Witness ==
    op = "invoke" /\ ClassifierFailed /\ ret.kind = "raise"

SELECTION == <<"legal", "compliance", "finance">>

\* The AgentResult envelope of domain agent n around ask_llm's output for
\* backend outcome o.
Envelope(n, o) ==
    [agent |-> AgentLabel[n],
     result |-> [analysis |-> IF o.ok THEN Strip(o.text) ELSE FALLBACK]]

\* C4: whenever an invocation completes, final_report holds
\* contract_classification equal to the state's classification,
\* selected_agents equal to legal, compliance, finance, and analysis, whose
\* keys are exactly the selected names, each value the AgentResult envelope
\* of that agent for what the backend answered to that agent's prompt, none
\* an Unknown-agent error envelope.
C4_FinalReportShape ==
    (op = "invoke" /\ ret.kind = "return") =>
        /\ ret.value.final_report # None
        /\ LET st == ret.value
               report == Get(st.final_report)
           IN  /\ DOMAIN report =
                     {"contract_classification", "selected_agents", "analysis"}
               /\ st.classification # None
               /\ report.contract_classification = st.classification
               /\ report.selected_agents = Some(SELECTION)
               /\ report.analysis # None
               /\ DOMAIN Get(report.analysis) = Range(SELECTION)
               /\ \A n \in Range(SELECTION) :
                     LET v == Get(report.analysis)[n]
                     IN  /\ DOMAIN v = {"agent", "result"}
                         /\ \E i \in DOMAIN llm_log :
                               /\ llm_log[i].prompt = Prompt(n, st.contract_text)
                               /\ v = Envelope(n, llm_log[i].outcome)

\* A completed invocation in which the backend failed for one agent and
\* answered another.
C4_Witness ==
    /\ op = "invoke"
    /\ ret.kind = "return"
    /\ \E i, j \in DOMAIN llm_log : llm_log[i].outcome.ok /\ ~llm_log[j].outcome.ok

InvokeDone == op = "invoke" /\ ret.kind \in {"return", "raise"}

\* C5: once started, an invocation terminates: it returns or raises, after
\* at most four node steps, and when build_report has run without raising
\* the graph is at END.
C5_InvocationTerminates ==
    /\ (op = "invoke") ~> InvokeDone
    /\ [](Len(executed) <= Len(PIPELINE))
    /\ []((op = "invoke" /\ executed # <<>> /\ Last(executed) = "build_report"
              /\ ret.kind # "raise") => node = END)

\* An invocation that returned after build_report.
C5_Witness ==
    /\ op = "invoke"
    /\ ret.kind = "return"
    /\ node = END
    /\ Len(executed) = Len(PIPELINE)

(***************************************************************************)
(* Properties of run_agents_in_parallel.                                   *)
(***************************************************************************)
RunnerDone == op = "run_agents_in_parallel" /\ rpc = "done"

Failed(n) == futures[n].outcome.kind = "raise"

\* A deterministic backend: two calls with the same prompt got the same
\* outcome.
Deterministic(log) ==
    \A i, j \in DOMAIN log :
        log[i].prompt = log[j].prompt => log[i].outcome = log[j].outcome

\* What the backend answers to a prompt, as logged.
Answer(log, prompt) ==
    log[CHOOSE i \in DOMAIN log : log[i].prompt = prompt].outcome

\* What calling the analyze of the agent under name n directly on the text
\* returns, with the backend answering as it did.
DirectAnalyze(n) ==
    agent_analyze(agent_map[n], run_text,
                  Answer(llm_log, Prompt(agent_map[n].class, run_text))).ret.value

\* C6: run_agents_in_parallel called with N >= 1 agents that all succeed
\* returns a mapping whose keys are exactly the requested names (N entries)
\* and whose value for every name is what that agent's analyze returns
\* when called directly on the same text under a deterministic backend,
\* whatever the order in which the tasks completed and were collected.
C6_ParallelEqualsDirect ==
    (/\ RunnerDone
     /\ Cardinality(DOMAIN agent_map) >= 1
     /\ \A n \in DOMAIN agent_map : ~Failed(n)
     /\ Deterministic(llm_log)) =>
        /\ ret.kind = "return"
        /\ DOMAIN ret.value = DOMAIN agent_map
        /\ Cardinality(DOMAIN ret.value) = Cardinality(DOMAIN agent_map)
        /\ \A n \in DOMAIN agent_map : ret.value[n] = DirectAnalyze(n)

\* A returned call with the agents legal and finance in which the task of
\* finance reached the backend first.
C6_Witness ==
    /\ RunnerDone
    /\ ret.kind = "return"
    /\ DOMAIN agent_map = {"legal", "finance"}
    /\ Deterministic(llm_log)
    /\ Len(llm_log) = 2
    /\ llm_log[1].prompt = Prompt(agent_map["finance"].class, run_text)
    /\ llm_log[1].prompt # llm_log[2].prompt

\* C7: if at least one of the dispatched agent tasks fails, the call of
\* run_agents_in_parallel fails with the exception of a failed task: it
\* never returns a mapping.
C7_AnyFailureFailsCall ==
    /\ (RunnerDone /\ \E n \in DOMAIN agent_map : Failed(n)) =>
          /\ ret.kind = "raise"
          /\ \E n \in DOMAIN agent_map :
                Failed(n) /\ ret.value = futures[n].outcome.value
    /\ (op = "run_agents_in_parallel"
          /\ \E n \in DOMAIN agent_map : agent_map[n].class = "failing") =>
          ret.kind # "return"

\* A failed call in which one task failed and another succeeded.
C7_Witness ==
    /\ RunnerDone
    /\ ret.kind = "raise"
    /\ \E n, m \in DOMAIN agent_map :
          /\ Failed(n)
          /\ futures[m].outcome.kind = "return"

\* s contains sub as a substring.
\* C8: when an agent task fails inside run_agents_in_parallel, the error
\* that reaches the caller names the agent that failed, by the name under
\* which it was requested.
C8_ErrorNamesFailedAgent ==
    (RunnerDone /\ ret.kind = "raise"
        /\ \E n \in DOMAIN agent_map : Failed(n)) =>
        \E n \in DOMAIN agent_map : Failed(n) /\ Contains(ret.value.msg, n)

(***************************************************************************)
(* Properties of PlanningModule.select_agents and run_agent.               *)
(***************************************************************************)
\* C9: select_agents returns the sequence legal, compliance, finance for
\* every classification input (any contract type, any confidence, None);
\* operations is never in the result.
C9_SelectionIsConstant ==
    op = "select_agents" =>
        /\ ret.kind = "return"
        /\ ret.value = <<"legal", "compliance", "finance">>
        /\ "operations" \notin Range(ret.value)

\* select_agents called with a Service Agreement classification.
C9_Witness ==
    /\ op = "select_agents"
    /\ ret.kind = "return"
    /\ arg.classification_result # None
    /\ Get(arg.classification_result).contract_type = "Service Agreement"

\* C10: for every agent name other than legal, finance, operations and
\* compliance, run_agent returns the envelope {error: "Unknown agent
\* '<name>'"} with the name embedded, raises nothing, and makes no backend
\* call.
C10_UnknownAgentEnvelope ==
    (op = "run_agent"
        /\ arg.agent_name \notin {"legal", "finance", "operations", "compliance"}) =>
        /\ ret.kind = "return"
        /\ DOMAIN ret.value = {"error"}
        /\ ret.value.error = "Unknown agent '" \o arg.agent_name \o "'"
        /\ Contains(ret.value.error, arg.agent_name)
        /\ llm_log = <<>>

\* run_agent called with the name "unknown".
C10_Witness ==
    /\ op = "run_agent"
    /\ arg.agent_name = "unknown"
    /\ ret.kind = "return"

(***************************************************************************)
(* Properties of ask_llm.                                                  *)
(***************************************************************************)
BackendFailed == \E i \in DOMAIN llm_log : ~llm_log[i].outcome.ok

\* C11: when the backend call fails, ask_llm does not raise but returns the
\* one fixed fallback string; so run_agent returns the envelope around the
\* fallback, an invocation whose classification succeeded never raises, the
\* run_agents node populates agent_outputs with the fallback for every
\* agent whose backend call failed, and the graph goes on to build_report.
C11_BackendFailureFallsBack ==
    /\ (op = "ask_llm" /\ BackendFailed) =>
          ret.kind = "return" /\ ret.value = FALLBACK
    /\ (op = "run_agent" /\ BackendFailed) =>
          /\ ret.kind = "return"
          /\ DOMAIN ret.value = {"agent", "result"}
          /\ ret.value.result.analysis = FALLBACK
    /\ (op = "invoke" /\ ~ClassifierFailed) => ret.kind # "raise"
    /\ (op = "invoke" /\ executed # <<>> /\ Last(executed) = "run_agents") =>
          /\ node = "build_report"
          /\ state.agent_outputs # None
          /\ \A i \in DOMAIN llm_log :
                ~llm_log[i].outcome.ok =>
                   \E n \in DOMAIN Get(state.agent_outputs) :
                      /\ llm_log[i].prompt = Prompt(n, state.contract_text)
                      /\ Get(state.agent_outputs)[n].result.analysis = FALLBACK

\* An invocation that returned although every backend call failed.
C11_Witness ==
    /\ op = "invoke"
    /\ ret.kind = "return"
    /\ Len(llm_log) = 3
    /\ \A i \in DOMAIN llm_log : ~llm_log[i].outcome.ok

\* C16: the text ask_llm returns never contains an echo of the prompt: when
\* the backend's response contains the prompt that was sent, the returned
\* text does not contain it (surrounding whitespace aside).
C16_PromptEchoRemoved ==
    (op = "ask_llm" /\ ret.kind = "return" /\ llm_log[1].outcome.ok
        /\ Contains(llm_log[1].outcome.text, arg.prompt)) =>
        ~Contains(ret.value, Strip(arg.prompt))

(***************************************************************************)
(* Properties of plan_agents.                                              *)
(***************************************************************************)
PlanDone == op = "plan_agents" /\ rpc = "plan_done"

\* C12: plan_agents, its classification succeeded, returns a record with
\* classification, selected_agents, agent_roles and agent_outputs; the key
\* sets of agent_roles and agent_outputs are the set of selected names,
\* agent_roles[name] is the static role entry of name, and agent_outputs
\* is the mapping run_agents_in_parallel returned for exactly the selected
\* agents, each the planner's own agent of that name, dispatched after the
\* one classifier call; no selected name is missing from the agent table.
C12_PlanAgentsRecord ==
    (PlanDone /\ ~ClassifierFailed) =>
        /\ ret.kind = "return"
        /\ DOMAIN ret.value =
              {"classification", "selected_agents", "agent_roles", "agent_outputs"}
        /\ LET plan == ret.value
               names == Range(plan.selected_agents)
           IN  /\ DOMAIN plan.agent_roles = names
               /\ DOMAIN plan.agent_outputs = names
               /\ \A n \in names : plan.agent_roles[n] = AGENT_ROLES[n]
               /\ Len(clf_log) = 1
               /\ DOMAIN futures = names
               /\ \A n \in names :
                     /\ agent_map[n] = DomainAgent(n)
                     /\ futures[n].st = "finished"
                     /\ plan.agent_outputs[n] = futures[n].outcome.value
                     /\ \E i \in DOMAIN llm_log :
                           /\ llm_log[i].prompt = Prompt(n, arg.text)
                           /\ plan.agent_outputs[n] = Envelope(n, llm_log[i].outcome)
               /\ Len(llm_log) = Cardinality(names)

\* A returned plan_agents call whose compliance task ended first and whose
\* legal task ended last.
C12_Witness ==
    /\ PlanDone
    /\ ret.kind = "return"
    /\ Len(llm_log) = 3
    /\ llm_log[1].prompt = Prompt("compliance", arg.text)
    /\ llm_log[3].prompt = Prompt("legal", arg.text)

(***************************************************************************)
(* Properties of extract_clauses.                                          *)
(***************************************************************************)
ExtractDone == op = "extract_clauses"

\* The keywords of the i-th category that occur in lower_text.
Occurring(i, lower_text) ==
    {k \in Range(CLAUSE_KEYWORDS[i].keywords) : Contains(lower_text, k)}

\* C13: for every contract text and every clause category, extract_clauses
\* lists the category in missing_clauses exactly when clauses[category] is
\* None, and that is exactly when none of the category's keywords occurs
\* in the lower-cased text; for the empty text all seven categories are
\* missing.
C13_MissingIffNoKeyword ==
    ExtractDone =>
        /\ ret.kind = "return"
        /\ DOMAIN ret.value.clauses =
              {CLAUSE_KEYWORDS[i].name : i \in DOMAIN CLAUSE_KEYWORDS}
        /\ LET lower_text == Lower(arg.contract_text)
           IN  \A i \in DOMAIN CLAUSE_KEYWORDS :
                  LET name == CLAUSE_KEYWORDS[i].name
                      listed == name \in Range(ret.value.missing_clauses)
                      absent == ret.value.clauses[name] = None
                  IN  /\ listed <=> absent
                      /\ absent <=> Occurring(i, lower_text) = {}
        /\ arg.contract_text = "" =>
              /\ Len(ret.value.missing_clauses) = Len(CLAUSE_KEYWORDS)
              /\ Cardinality(Range(ret.value.missing_clauses)) =
                    Len(CLAUSE_KEYWORDS)

\* An extraction from a text that spells a payment keyword with a capital
\* and has no termination keyword: payment is found, termination missing.
C13_Witness ==
    /\ ExtractDone
    /\ Contains(arg.contract_text, "Payment")
    /\ ~Contains(arg.contract_text, "payment")
    /\ ret.value.clauses["payment"] # None
    /\ "termination" \in Range(ret.value.missing_clauses)
    /\ "payment" \notin Range(ret.value.missing_clauses)

\* C14: for every keyword match at positions [s, e) the window taken is
\* the original-case text from max(s-200, 0) to min(e+500, len(text)); it
\* lies inside the text, is part of the category's clause, and contains
\* the matched span.
C14_WindowContainsMatch ==
    ExtractDone =>
        \A i \in DOMAIN CLAUSE_KEYWORDS :
            LET text == arg.contract_text
                lower_text == Lower(text)
                ms == finditer(CLAUSE_KEYWORDS[i].keywords, lower_text)
            IN  \A j \in DOMAIN ms :
                    LET w == window(text, ms[j])
                    IN  /\ w = Slice(text, Max(ms[j].start - WindowBefore, 0),
                                     Min(ms[j].end + WindowAfter, Len(text)))
                        /\ Contains(text, w)
                        /\ Contains(Get(ret.value.clauses[CLAUSE_KEYWORDS[i].name]), w)
                        /\ Contains(Lower(w),
                                    Slice(lower_text, ms[j].start, ms[j].end))

(***************************************************************************)
(* Properties of postprocess_findings.                                     *)
(***************************************************************************)
PostprocessDone == op = "postprocess_findings"

HasHigh(issue) ==
    LET lower == Lower(issue)
    IN  \E k \in {"terminate", "penalty", "liability", "breach", "uncapped"} :
            Contains(lower, k)

HasMedium(issue) ==
    LET lower == Lower(issue)
    IN  \E k \in {"auto-renew", "increase", "unclear"} : Contains(lower, k)

\* C15: postprocess_findings gives every issue of every domain one finding,
\* whose severity is HIGH if the lower-cased issue text contains a HIGH
\* keyword, otherwise MEDIUM if it contains a MEDIUM keyword, otherwise
\* LOW; an issue with a HIGH and a MEDIUM keyword is HIGH.
C15_SeverityRule ==
    PostprocessDone =>
        LET given == get_domains(arg.result)
            made == ret.value["domains"]
        IN  /\ DOMAIN made = DOMAIN given
            /\ \A d \in DOMAIN given :
                  /\ Len(made[d]) = Len(given[d])
                  /\ \A i \in 1..Len(given[d]) :
                        LET issue == given[d][i]
                            f == made[d][i]
                            high == HasHigh(issue)
                            medium == HasMedium(issue)
                        IN  /\ f.issue = issue
                            /\ f.severity \in {"HIGH", "MEDIUM", "LOW"}
                            /\ f.severity = "HIGH" <=> high
                            /\ f.severity = "MEDIUM" <=> (~high /\ medium)
                            /\ f.severity = "LOW" <=> (~high /\ ~medium)

\* A finding made HIGH for an issue that has a HIGH and a MEDIUM keyword.
C15_Witness ==
    /\ PostprocessDone
    /\ \E d \in DOMAIN ret.value["domains"] :
          \E i \in DOMAIN ret.value["domains"][d] :
              LET f == ret.value["domains"][d][i]
              IN  /\ HasHigh(f.issue)
                  /\ HasMedium(f.issue)
                  /\ f.severity = "HIGH"

(***************************************************************************)
(* The workflow's optional inputs.                                         *)
(***************************************************************************)
\* The report the workflow assembles from the classifier's answer c and the
\* backend's answers outs to the prompts of legal, compliance and finance.
ReportFor(c, outs) ==
    [contract_classification |->
        Some([contract_type |-> c.labels[1], confidence |-> c.scores[1]]),
     selected_agents |-> Some(SELECTION),
     analysis |->
        Some([n \in Range(SELECTION) |->
                Envelope(n, outs[CHOOSE i \in DOMAIN SELECTION :
                                    SELECTION[i] = n])])]

\* C17: two invocations with the same contract_text and different optional
\* inputs (clauses, tone, focus, risk_threshold) produce the same
\* final_report under a deterministic backend: whatever the optional
\* inputs, the classifier is asked once, about contract_text; the backend
\* is asked the prompts of legal, compliance and finance for contract_text;
\* and final_report is the report assembled from their answers.
C17_OptionalInputsIgnored ==
    (op = "invoke" /\ ret.kind = "return") =>
        /\ Len(clf_log) = 1
        /\ clf_log[1].text = arg.contract_text
        /\ Len(llm_log) = Len(SELECTION)
        /\ \A i \in DOMAIN SELECTION :
              llm_log[i].prompt = Prompt(SELECTION[i], arg.contract_text)
        /\ ret.value.final_report =
              Some(ReportFor(clf_log[1].outcome,
                             [i \in DOMAIN SELECTION |-> llm_log[i].outcome]))

\* A completed invocation that was given all four optional inputs.
C17_Witness ==
    /\ op = "invoke"
    /\ ret.kind = "return"
    /\ {"clauses", "tone", "focus", "risk_threshold"} \subseteq DOMAIN arg
    /\ arg.tone = "Risk Assessment"
    /\ arg.contract_text # ""

(***************************************************************************)
(* The workflow's run_agents stage and the runner.                         *)
(***************************************************************************)
\* C18: the run_agents stage of the workflow fans out one concurrent task
\* per selected agent and blocks until all have completed or one has
\* failed: once run_agents has executed, every selected agent has had a
\* task of its own in the pool, and every such task is finished.
C18_RunAgentsFansOut ==
    (op = "invoke" /\ "run_agents" \in Range(executed)
        /\ state.selected_agents # None) =>
        /\ DOMAIN futures = Range(Get(state.selected_agents))
        /\ \A n \in DOMAIN futures : futures[n].st = "finished"

\* A dispatched task that has not resolved: it is waiting or running.
Unresolved(n) == futures[n].st # "finished"

\* C19: run_agents_in_parallel does not return to its caller, with the
\* results or with an error, until every dispatched agent task has
\* resolved: as long as a task of the call is unresolved the call has
\* neither returned nor raised, also when a task's failure has been
\* observed already, and every agent of the mapping has a task.
C19_NoReturnBeforeAllResolved ==
    (op = "run_agents_in_parallel" /\ Cardinality(DOMAIN agent_map) > 0) =>
        /\ DOMAIN futures = DOMAIN agent_map
        /\ (\E n \in DOMAIN futures : Unresolved(n)) =>
              /\ ret.kind \notin {"return", "raise"}
              /\ rpc # "done"
        /\ rpc = "done" =>
              /\ ret.kind \in {"return", "raise"}
              /\ \A n \in DOMAIN futures : ~Unresolved(n)

\* The failure of one task has been observed while another task is still
\* running: the call has not returned.
C19_Witness ==
    /\ op = "run_agents_in_parallel"
    /\ ret.kind = "unwinding"
    /\ \E n \in DOMAIN futures : Failed(n) /\ n \in yielded
    /\ \E n \in DOMAIN futures : futures[n].st = "running"

\* What one step of a running call may do to the call's data: the text and
\* the agent mapping stay as given; a task changes its own future only; and
\* the result mapping changes only by gaining the slot of one agent whose
\* task has finished and whose slot was empty, filled with that task's
\* result.
RunnerStep ==
    InRunner =>
        /\ run_text' = run_text
        /\ agent_map' = agent_map
        /\ Cardinality({n \in DOMAIN futures : futures'[n] # futures[n]}) <= 1
        /\ results' # results =>
              \E n \in DOMAIN futures :
                  /\ futures[n].st = "finished"
                  /\ futures[n].outcome.kind = "return"
                  /\ n \notin DOMAIN results
                  /\ results' = Put(results, n, futures[n].outcome.value)

\* The mapping a successful call returns holds, for every agent, the result
\* of that agent's task, whatever the order in which the tasks ran, and
\* every prompt that was sent holds the text as it was given.
RunnerResultByAgent ==
    (op = "run_agents_in_parallel" /\ rpc = "done" /\ ret.kind = "return") =>
        /\ ret.value = results
        /\ DOMAIN results = DOMAIN agent_map
        /\ \A n \in DOMAIN results : results[n] = futures[n].outcome.value
        /\ \A i \in DOMAIN llm_log :
              \E n \in DOMAIN agent_map :
                  /\ agent_map[n].class \in KnownAgents
                  /\ llm_log[i].prompt = Prompt(agent_map[n].class, run_text)

AnswerTo(prompt) ==
    llm_log[CHOOSE i \in DOMAIN llm_log : llm_log[i].prompt = prompt].outcome

\* The classifier was asked once, about text, and the backend was asked
\* once for each of legal, compliance and finance, about text.
AskedAbout(text) ==
    /\ Len(clf_log) = 1
    /\ clf_log[1].text = text
    /\ Len(llm_log) = Len(SELECTION)
    /\ {llm_log[i].prompt : i \in DOMAIN llm_log} =
          {Prompt(n, text) : n \in Range(SELECTION)}

\* The classification made of the classifier's answer, and the analyses
\* made of the backend's answers to the three prompts for text.
ClassificationFor(c) ==
    [contract_type |-> c.labels[1], confidence |-> c.scores[1]]

AnalysisFor(text) ==
    [n \in Range(SELECTION) |-> Envelope(n, AnswerTo(Prompt(n, text)))]

\* C21: for the same contract text and a deterministic backend the
\* workflow path and the batch path agree: each asks the classifier and
\* the backend the same questions about the text, and the analysis of the
\* workflow's final_report and agent_outputs of plan_agents are the same
\* mapping of the backend's answers, next to the same classification of
\* the classifier's answer and the same selected_agents.
C21_PathsAgree ==
    /\ (op = "invoke" /\ ret.kind = "return") =>
          LET report == Get(ret.value.final_report)
          IN  /\ AskedAbout(arg.contract_text)
              /\ report.analysis = Some(AnalysisFor(arg.contract_text))
              /\ report.contract_classification =
                    Some(ClassificationFor(clf_log[1].outcome))
              /\ report.selected_agents = Some(SELECTION)
    /\ (PlanDone /\ ret.kind = "return") =>
          /\ AskedAbout(arg.text)
          /\ ret.value.agent_outputs = AnalysisFor(arg.text)
          /\ ret.value.classification = ClassificationFor(clf_log[1].outcome)
          /\ ret.value.selected_agents = SELECTION

\* A returned plan_agents call whose finance task ended first, with the
\* backend failing for one agent and answering another.
C21_Witness ==
    /\ PlanDone
    /\ ret.kind = "return"
    /\ arg.text # ""
    /\ llm_log[1].prompt = Prompt("finance", arg.text)
    /\ \E i, j \in DOMAIN llm_log :
          llm_log[i].outcome.ok /\ ~llm_log[j].outcome.ok

(***************************************************************************)
(* The report the analysis step reads.                                     *)
(***************************************************************************)
\* The last script run was a click on Analyze Contract in which the
\* workflow built its final_report.
ReportObtained ==
    /\ op = "app"
    /\ arg.button = "analyze"
    /\ state.final_report # None

\* C22: every report run_analysis obtains from the workflow carries the
\* fields the following steps read (summary, confidence, risk_score,
\* domains): save_analysis persists the report and postprocess_findings
\* produces the session's findings, and the script run ends without an
\* error.
C22_ReportFeedsFollowingSteps ==
    ReportObtained =>
        /\ \A i \in DOMAIN ANALYSIS_KEYS :
              ANALYSIS_KEYS[i] \in DOMAIN Get(state.final_report)
        /\ ret.kind = "return"
        /\ Len(db.analyses) > 0
        /\ session.analysis # None

(***************************************************************************)
(* The runner on an empty mapping.                                         *)
(***************************************************************************)
\* C23: run_agents_in_parallel called with an empty agent mapping comes
\* back with an empty mapping and raises nothing.
C23_EmptyMappingReturnsEmpty ==
    (op = "run_agents_in_parallel" /\ agent_map = EmptyDict /\ rpc = "done")
        => (ret.kind = "return" /\ ret.value = EmptyDict)

(***************************************************************************)
(* The contract an analysis is saved under.                                *)
(***************************************************************************)
\* The contract_id is that of an upload of the file.
BelongsTo(contract_id, file) ==
    \E r \in db.contracts :
        r.contract_id = contract_id /\ r.filename = file.name

\* C24: in a session, after every sequence of file selections, upload
\* steps, analyses and resets, the contract_id handed to save_analysis is
\* that of the uploaded_file whose contents run_analysis read, and an
\* analysis was only run with uploaded true and contract_info set.
C24_SavedUnderTheFileRead ==
    (op = "app" /\ arg.button = "analyze") =>
        /\ \A i \in DOMAIN save_log :
              BelongsTo(save_log[i].contract_id, save_log[i].uploaded_file)
        /\ clf_log # <<>> =>
              (session.uploaded /\ session.contract_info # None)

(***************************************************************************)
(* The process-wide client.                                                *)
(***************************************************************************)
\* C25: the process-wide client is constructed at most once: in every
\* interleaving of the agent tasks' first get_client calls exactly one
\* InferenceClient is created, and all calls get that same instance.
C25_ClientConstructedOnce ==
    /\ Cardinality(created) <= 1
    /\ \A t, u \in THREADS :
          (caller[t].pc = "returned" /\ caller[u].pc = "returned")
              => caller[t].client = caller[u].client
    /\ (\E t \in THREADS : caller[t].pc = "returned")
          => Cardinality(created) = 1

====
